---- MODULE Spec2Model ----
(***************************************************************************)
(* Model of src/app.py: a Flask invoicing application over an SQLite       *)
(* database (tables clientes, productos, facturas, detalle_factura).       *)
(*                                                                         *)
(* Money is counted in cents: every Numeric(_, 2) column read back from    *)
(* the database has two decimal places.  An optional integer (the result   *)
(* of request.form.get(key, type=int)) is a sequence of length 0 or 1:     *)
(* None is << >> and the integer n is << n >>.                             *)
(***************************************************************************)
EXTENDS Integers, Sequences, FiniteSets, TLC

VARIABLES db, req, resp, tx, sesion

vars == <<db, req, resp, tx, sesion>>

----------------------------------------------------------------------------
(* Bounds of the model *)

MaxCli == 1        \* customer ids are 1..MaxCli
MaxProd == 2       \* product ids are 1..MaxProd
MaxFact == 2       \* at most MaxFact invoices are created
MaxFilled == 2     \* a submitted invoice form fills at most its first MaxFilled rows
MaxWorkers == 2    \* requests served at the same time
MaxBrowsers == 2   \* browser sessions

(* Program constants *)

ROWS == 5
SeedPrecio == 10000
SeedStock == 10

----------------------------------------------------------------------------
(* Optional integers and Python truthiness *)

None == << >>
Some(n) == << n >>

\* Python's truth value of an optional int: None and 0 are falsy.
Truthy(v) == v # None /\ v[1] # 0

SetMax(S) == CHOOSE x \in S : \A y \in S : y <= x

\* SQLite's rowid for an INTEGER PRIMARY KEY column: one more than the largest
\* id in the table (1 for an empty table).
NextId(rows) == IF rows = {} THEN 1 ELSE SetMax({r.id : r \in rows}) + 1

Ids(rows) == {r.id : r \in rows}

Row(rows, id) == CHOOSE r \in rows : r.id = id

----------------------------------------------------------------------------
(* The schema's constraints *)

\* Producto.__table_args__
CkProducto(p) == p.precio >= 0 /\ p.stock >= 0

\* DetalleFactura.__table_args__
CkDetalle(d) == d.cantidad > 0 /\ d.precio_unitario >= 0 /\ d.subtotal >= 0

\* Factura.cliente_id references clientes.id
FkFacturaCliente(d) == \A f \in d.facturas : f.cliente_id \in Ids(d.clientes)

\* DetalleFactura.factura_id and .producto_id reference facturas.id, productos.id
FkDetalle(d) ==
    \A l \in d.detalle_factura :
        l.factura_id \in Ids(d.facturas) /\ l.producto_id \in Ids(d.productos)

\* Variant: the pragma is never issued, and SQLite leaves foreign keys
\* unenforced.
ForeignKeysOff == FALSE

\* With PRAGMA foreign_keys=ON the engine refuses a transaction that breaks a
\* foreign key or a CHECK constraint.
ForeignKeysOn == TRUE

Integrity(d) ==
    /\ \A p \in d.productos : CkProducto(p)
    /\ \A l \in d.detalle_factura : CkDetalle(l)
    /\ ForeignKeysOn => (FkFacturaCliente(d) /\ FkDetalle(d))

\* db.session.commit(): the pending state replaces the stored one, or the
\* transaction is rolled back whole on an IntegrityError.
Commit(stored, pending) == IF Integrity(pending) THEN pending ELSE stored

----------------------------------------------------------------------------
(* Requests *)

Workers == 1..MaxWorkers

Browsers == 1..MaxBrowsers

\* The principal of a browser session without a logged-in user.
Anon == 0

\* A worker with no request.
Idle == [pc |-> "idle"]

NoReq == [op |-> "none"]
NoResp == [outcome |-> "none"]

NombreInputs == {"", "Ana"}
PrecioInputs == {0, 250}
StockInputs == {-1, 0, 6}
PidInputs == {None} \cup {Some(i) : i \in 1..MaxProd}
QtyInputs == {None, Some(-1), Some(0), Some(3), Some(5), Some(6)}
ClienteIdInputs == {None} \cup {Some(i) : i \in 1..MaxCli}

BlankRow == [pid |-> None, qty |-> None]

\* The rows a browser submits: a row names a product or not, and carries a
\* quantity or not.
RowInputs ==
    {[pid |-> None, qty |-> Some(3)]}
        \cup {[pid |-> p, qty |-> q] : p \in PidInputs \ {None}, q \in QtyInputs}

\* The form's ROWS row slots, the first n of them filled.
PadRows(filled) ==
    [i \in 1..ROWS |-> IF i <= Len(filled) THEN filled[i] ELSE BlankRow]

RowsInputs ==
    {PadRows(f) : f \in UNION {[1..n -> RowInputs] : n \in 0..MaxFilled}}

ClienteReqs ==
    {[op |-> "clientes_nuevo", nombre |-> n] : n \in NombreInputs}
        \cup {[op |-> "clientes_editar", cliente_id |-> i, nombre |-> n] :
                i \in 1..MaxCli, n \in NombreInputs}
        \cup {[op |-> "clientes_eliminar", cliente_id |-> i] : i \in 1..MaxCli}

ProductoReqs ==
    {[op |-> "productos_nuevo", precio |-> p, stock |-> s] :
        p \in PrecioInputs, s \in StockInputs}
        \cup {[op |-> "productos_editar", producto_id |-> i, precio |-> p, stock |-> s] :
                i \in 1..MaxProd, p \in PrecioInputs, s \in StockInputs}
        \cup {[op |-> "productos_eliminar", producto_id |-> i] : i \in 1..MaxProd}

FacturaReqs ==
    {[op |-> "facturas_nueva", cliente_id |-> c, rows |-> r] :
        c \in ClienteIdInputs, r \in RowsInputs}

\* The growth of the tables is capped: a request that would create a row is
\* submitted only while its table has room.
Room(d, r) ==
    CASE r.op = "clientes_nuevo" -> NextId(d.clientes) <= MaxCli
      [] r.op = "productos_nuevo" -> NextId(d.productos) <= MaxProd
      [] r.op = "facturas_nueva" -> Cardinality(d.facturas) < MaxFact
      [] OTHER -> TRUE

----------------------------------------------------------------------------
(* Forms *)

\* wtforms DataRequired on a string field: the stripped value is not empty.
\* On a numeric field: the value is truthy.
DataRequiredStr(s) == s # ""
DataRequiredNum(n) == n # 0

\* ClienteForm
ClienteFormValid(f) == DataRequiredStr(f.nombre)

\* ProductoForm: precio >= 0.01, stock >= 0
ProductoFormValid(f) ==
    /\ DataRequiredNum(f.precio) /\ f.precio >= 1
    /\ DataRequiredNum(f.stock) /\ f.stock >= 0

----------------------------------------------------------------------------
(* Customers *)

Handling(op) == req.op = op /\ resp = NoResp

Reply(outcome) == resp' = [outcome |-> outcome] /\ UNCHANGED <<req, tx, sesion>>

\* The handler commits and redirects; an IntegrityError raised by the commit
\* ends the request with an internal server error and nothing stored.
CommitAndReply(pending, outcome) ==
    /\ db' = Commit(db, pending)
    /\ Reply(IF Integrity(pending) THEN outcome ELSE "integrity_error")

clientes_nuevo ==
    /\ Handling("clientes_nuevo")
    /\ IF ClienteFormValid(req)
       THEN LET c == [id |-> NextId(db.clientes), nombre |-> req.nombre]
                pending == [db EXCEPT !.clientes = @ \cup {c}]
            IN  CommitAndReply(pending, "created")
       ELSE UNCHANGED db /\ Reply("invalid")

clientes_editar ==
    /\ Handling("clientes_editar")
    /\ IF req.cliente_id \notin Ids(db.clientes)
       THEN UNCHANGED db /\ Reply("not_found")
       ELSE IF ClienteFormValid(req)
            THEN LET cliente == Row(db.clientes, req.cliente_id)
                     pending == [db EXCEPT !.clientes =
                                    (@ \ {cliente}) \cup {[cliente EXCEPT !.nombre = req.nombre]}]
                 IN  CommitAndReply(pending, "updated")
            ELSE UNCHANGED db /\ Reply("invalid")

\* cliente.facturas.count()
FacturasDe(d, cliente_id) == {f \in d.facturas : f.cliente_id = cliente_id}

\* Variant: the handler does not look for the customer's invoices.
ClienteEnUso_nunca(d, cliente_id) == FALSE

ClienteEnUso(d, cliente_id) == Cardinality(FacturasDe(d, cliente_id)) > 0

clientes_eliminar ==
    /\ Handling("clientes_eliminar")
    /\ IF req.cliente_id \notin Ids(db.clientes)
       THEN UNCHANGED db /\ Reply("not_found")
       ELSE IF ClienteEnUso(db, req.cliente_id)
            THEN UNCHANGED db /\ Reply("in_use")
            ELSE LET cliente == Row(db.clientes, req.cliente_id)
                     pending == [db EXCEPT !.clientes = @ \ {cliente}]
                 IN  CommitAndReply(pending, "deleted")

----------------------------------------------------------------------------
(* Products *)

productos_nuevo ==
    /\ Handling("productos_nuevo")
    /\ IF ProductoFormValid(req)
       THEN LET p == [id |-> NextId(db.productos), precio |-> req.precio,
                      stock |-> req.stock]
                pending == [db EXCEPT !.productos = @ \cup {p}]
            IN  CommitAndReply(pending, "created")
       ELSE UNCHANGED db /\ Reply("invalid")

\* Variant: the submitted values are stored as they come, with neither the
\* form's validators nor the table's CHECK constraints.
productos_editar_sin_validar ==
    /\ Handling("productos_editar")
    /\ IF req.producto_id \notin Ids(db.productos)
       THEN UNCHANGED db /\ Reply("not_found")
       ELSE LET producto == Row(db.productos, req.producto_id)
            IN  /\ db' = [db EXCEPT !.productos =
                            (@ \ {producto}) \cup
                            {[producto EXCEPT !.precio = req.precio,
                                              !.stock = req.stock]}]
                /\ Reply("updated")

productos_editar ==
    /\ Handling("productos_editar")
    /\ IF req.producto_id \notin Ids(db.productos)
       THEN UNCHANGED db /\ Reply("not_found")
       ELSE IF ProductoFormValid(req)
            THEN LET producto == Row(db.productos, req.producto_id)
                     pending == [db EXCEPT !.productos =
                                    (@ \ {producto}) \cup
                                    {[producto EXCEPT !.precio = req.precio,
                                                      !.stock = req.stock]}]
                 IN  CommitAndReply(pending, "updated")
            ELSE UNCHANGED db /\ Reply("invalid")

\* producto.detalles
DetallesDe(d, producto_id) == {l \in d.detalle_factura : l.producto_id = producto_id}

\* Variant: the handler does not look for the product's lines.
ProductoEnUso_nunca(d, producto_id) == FALSE

ProductoEnUso(d, producto_id) == Cardinality(DetallesDe(d, producto_id)) > 0

productos_eliminar ==
    /\ Handling("productos_eliminar")
    /\ IF req.producto_id \notin Ids(db.productos)
       THEN UNCHANGED db /\ Reply("not_found")
       ELSE IF ProductoEnUso(db, req.producto_id)
            THEN UNCHANGED db /\ Reply("in_use")
            ELSE LET producto == Row(db.productos, req.producto_id)
                     pending == [db EXCEPT !.productos = @ \ {producto}]
                 IN  CommitAndReply(pending, "deleted")

----------------------------------------------------------------------------
(* Invoices *)

\* Variant: a quantity <= 0 is collected like any other.
RECURSIVE CollectItems_sin_rechazo(_, _, _)
CollectItems_sin_rechazo(rows, i, items) ==
    IF i > ROWS
    THEN [ok |-> TRUE, items |-> items]
    ELSE IF Truthy(rows[i].pid) /\ Truthy(rows[i].qty)
         THEN CollectItems_sin_rechazo(rows, i + 1,
                                       Append(items, <<rows[i].pid[1], rows[i].qty[1]>>))
         ELSE CollectItems_sin_rechazo(rows, i + 1, items)

\* Lines 293-301: the rows with a truthy product id and a truthy quantity, in
\* row order; a quantity <= 0 among them ends the request.
RECURSIVE CollectItems(_, _, _)
CollectItems(rows, i, items) ==
    IF i > ROWS
    THEN [ok |-> TRUE, items |-> items]
    ELSE LET pid == rows[i].pid
             qty == rows[i].qty
         IN  IF Truthy(pid) /\ Truthy(qty)
             THEN IF qty[1] <= 0
                  THEN [ok |-> FALSE, items |-> items]
                  ELSE CollectItems(rows, i + 1, Append(items, <<pid[1], qty[1]>>))
             ELSE CollectItems(rows, i + 1, items)

Keys(agg) == {agg[k][1] : k \in 1..Len(agg)}

Get(agg, pid) ==
    IF pid \in Keys(agg)
    THEN (agg[CHOOSE k \in 1..Len(agg) : agg[k][1] = pid])[2]
    ELSE 0

\* Variant: every assignment adds an entry, as on a list of pairs.
AggSet_append(agg, pid, v) == Append(agg, <<pid, v>>)

\* agg[pid] = v on a dict, which keeps its keys in the order of their first
\* insertion.
AggSet(agg, pid, v) ==
    IF pid \in Keys(agg)
    THEN [k \in 1..Len(agg) |-> IF agg[k][1] = pid THEN <<pid, v>> ELSE agg[k]]
    ELSE Append(agg, <<pid, v>>)

\* Variant: agg[pid] = qty, the last row of a product wins.
RECURSIVE Aggregate_ultimo(_, _)
Aggregate_ultimo(items, agg) ==
    IF items = << >>
    THEN agg
    ELSE Aggregate_ultimo(Tail(items), AggSet(agg, Head(items)[1], Head(items)[2]))

\* Lines 307-309: agg[pid] = agg.get(pid, 0) + qty for each item.
RECURSIVE Aggregate(_, _)
Aggregate(items, agg) ==
    IF items = << >>
    THEN agg
    ELSE LET pid == Head(items)[1]
             qty == Head(items)[2]
         IN  Aggregate(Tail(items), AggSet(agg, pid, Get(agg, pid) + qty))

\* Lines 311-312: the products named by agg, as loaded into the session.
ById(d, agg) == {p \in d.productos : p.id \in Keys(agg)}

\* Line 313
Faltan(agg, by_id) == {pid \in Keys(agg) : pid \notin Ids(by_id)}

\* Lines 318-323
Insuf(agg, by_id) == {pid \in Keys(agg) : Get(agg, pid) > Row(by_id, pid).stock}

\* DetalleFactura.calcular_subtotal
calcular_subtotal(det) ==
    [det EXCEPT !.subtotal = det.precio_unitario * det.cantidad]

RECURSIVE SumSubtotal(_)
SumSubtotal(dets) ==
    IF dets = << >> THEN 0 ELSE Head(dets).subtotal + SumSubtotal(Tail(dets))

\* Variant: the total keeps the value the invoice was constructed with.
recalcular_total_sin_sumar(factura, detalles) == factura

\* Factura.recalcular_total over the invoice's lines held in the session
recalcular_total(factura, detalles) ==
    [factura EXCEPT !.total = SumSubtotal(detalles)]

\* Variant: the loop adds the line and leaves the product's stock alone.
AddDetalle_sin_descuento(s, pid, qty) ==
    LET p == Row(s.by_id, pid)
        det == [producto_id |-> pid, cantidad |-> qty,
                precio_unitario |-> p.precio, subtotal |-> p.precio * qty]
    IN  [s EXCEPT !.detalles = Append(@, det)]

\* Lines 332-342: one pass of the loop, on the session s.
AddDetalle(s, pid, qty) ==
    LET p == Row(s.by_id, pid)
        precio == p.precio
        det == calcular_subtotal([producto_id |-> pid, cantidad |-> qty,
                                  precio_unitario |-> precio, subtotal |-> 0])
    IN  [s EXCEPT !.detalles = Append(@, det),
                  !.by_id = (@ \ {p}) \cup {[p EXCEPT !.stock = p.stock - qty]}]

\* Lines 331-342
RECURSIVE AddDetalles(_, _)
AddDetalles(s, agg) ==
    IF agg = << >>
    THEN s
    ELSE AddDetalles(AddDetalle(s, Head(agg)[1], Head(agg)[2]), Tail(agg))

\* Line 328: the session of a request that passed validation.
NewSession(cliente_id, by_id) ==
    [factura |-> [cliente_id |-> cliente_id, total |-> 0],
     detalles |-> << >>,
     by_id |-> by_id]

\* The flush of the session s at commit: the invoice and its lines are
\* inserted with fresh ids, and each product the session changed gets an
\* UPDATE of its stock column, by id.
Flush(d, s) ==
    LET fid == NextId(d.facturas)
        did == NextId(d.detalle_factura)
        factura == [id |-> fid, cliente_id |-> s.factura.cliente_id,
                    total |-> s.factura.total]
        lines == {[id |-> did + k - 1, factura_id |-> fid,
                   producto_id |-> s.detalles[k].producto_id,
                   cantidad |-> s.detalles[k].cantidad,
                   precio_unitario |-> s.detalles[k].precio_unitario,
                   subtotal |-> s.detalles[k].subtotal] : k \in 1..Len(s.detalles)}
    IN  [d EXCEPT !.facturas = @ \cup {factura},
                  !.detalle_factura = @ \cup lines,
                  !.productos =
                      {IF p.id \in Ids(s.by_id)
                       THEN [p EXCEPT !.stock = Row(s.by_id, p.id).stock]
                       ELSE p : p \in @}]

\* Lines 328-344: what the handler holds in its session when it commits.
BuildFactura(cliente_id, agg, by_id) ==
    LET s == AddDetalles(NewSession(cliente_id, by_id), agg)
    IN  [s EXCEPT !.factura = recalcular_total(s.factura, s.detalles)]

\* Lines 288-326: the validation of a submission against the stored state d;
\* "ok" when the handler goes on to create the invoice.
Validar(d, r) ==
    IF ~Truthy(r.cliente_id)
    THEN "no_cliente"
    ELSE LET col == CollectItems(r.rows, 1, << >>)
             agg == Aggregate(col.items, << >>)
             by_id == ById(d, agg)
         IN  IF ~col.ok THEN "bad_qty"
             ELSE IF col.items = << >> THEN "no_items"
             ELSE IF Faltan(agg, by_id) # {} THEN "no_producto"
             ELSE IF Insuf(agg, by_id) # {} THEN "insuf"
             ELSE "ok"

\* Lines 328-345: the stored state the handler asks the commit for.
Facturar(d, r) ==
    LET agg == Aggregate(CollectItems(r.rows, 1, << >>).items, << >>)
    IN  Flush(d, BuildFactura(r.cliente_id[1], agg, ById(d, agg)))

\* Variant: on a shortfall the handler warns, yet stores the invoice with
\* the lines of the products that had enough stock.
facturas_nueva_parcial ==
    /\ Handling("facturas_nueva")
    /\ IF Validar(db, req) = "insuf"
       THEN LET agg == Aggregate(CollectItems(req.rows, 1, << >>).items, << >>)
                by_id == ById(db, agg)
                hay == SelectSeq(agg, LAMBDA e : e[2] <= Row(by_id, e[1]).stock)
            IN  /\ db' = Commit(db, Flush(db, BuildFactura(req.cliente_id[1], hay, by_id)))
                /\ Reply("insuf")
       ELSE IF Validar(db, req) # "ok"
       THEN UNCHANGED db /\ Reply(Validar(db, req))
       ELSE LET pending == Facturar(db, req)
            IN  /\ db' = Commit(db, pending)
                /\ resp' = IF Integrity(pending)
                           THEN [outcome |-> "created", factura_id |-> NextId(db.facturas)]
                           ELSE [outcome |-> "integrity_error"]
                /\ UNCHANGED <<req, tx, sesion>>

facturas_nueva ==
    /\ Handling("facturas_nueva")
    /\ IF Validar(db, req) # "ok"
       THEN UNCHANGED db /\ Reply(Validar(db, req))
       ELSE LET pending == Facturar(db, req)
            IN  /\ db' = Commit(db, pending)
                /\ resp' = IF Integrity(pending)
                           THEN [outcome |-> "created", factura_id |-> NextId(db.facturas)]
                           ELSE [outcome |-> "integrity_error"]
                /\ UNCHANGED <<req, tx, sesion>>

----------------------------------------------------------------------------
(* The application *)

\* create_app's seed of an empty database: one customer and one product.
Init ==
    /\ db = [clientes |-> {[id |-> 1, nombre |-> "Cliente demo"]},
             productos |-> {[id |-> 1, precio |-> SeedPrecio, stock |-> SeedStock]},
             facturas |-> {},
             detalle_factura |-> {}]
    /\ req = NoReq
    /\ resp = NoResp
    /\ tx = [w \in Workers |-> Idle]
    /\ sesion = [b \in Browsers |-> Anon]

Requests == ClienteReqs \cup ProductoReqs \cup FacturaReqs

\* A request arrives.
Submit ==
    /\ req = NoReq
    /\ \E r \in Requests : Room(db, r) /\ req' = r
    /\ UNCHANGED <<db, resp, tx, sesion>>

\* The response leaves.
Deliver ==
    /\ resp # NoResp
    /\ req' = NoReq
    /\ resp' = NoResp
    /\ UNCHANGED <<db, tx, sesion>>

Next ==
    \/ Submit
    \/ clientes_nuevo
    \/ clientes_editar
    \/ clientes_eliminar
    \/ productos_nuevo
    \/ productos_editar
    \/ productos_eliminar
    \/ facturas_nueva
    \/ Deliver

Spec == Init /\ [][Next]_vars

----------------------------------------------------------------------------
(* Requests served at the same time *)

\* The handler facturas_nueva in the steps at which it meets the database:
\* its queries read the stored state, the loop works on the objects of the
\* request's own session, and the commit flushes that session in one
\* transaction.  tx[w] holds the handler's local variables.

InFlight == {w \in Workers : tx[w].pc = "loop"}

\* Lines 278-329: the queries and the validation.  A submission that fails
\* validation is answered at once and leaves nothing behind.
fn_begin(w) ==
    /\ tx[w] = Idle
    /\ Cardinality(db.facturas) + Cardinality(InFlight) < MaxFact
    /\ \E r \in FacturaReqs :
          /\ Validar(db, r) = "ok"
          /\ LET agg == Aggregate(CollectItems(r.rows, 1, << >>).items, << >>)
             IN  tx' = [tx EXCEPT ![w] =
                          [pc |-> "loop", agg |-> agg, todo |-> agg,
                           s |-> NewSession(r.cliente_id[1], ById(db, agg))]]
    /\ UNCHANGED <<db, req, resp, sesion>>

\* Variant: the loop commits each product's new stock as it goes.
fn_loop_autocommit(w) ==
    /\ tx[w].pc = "loop"
    /\ tx[w].todo # << >>
    /\ LET s2 == AddDetalle(tx[w].s, Head(tx[w].todo)[1], Head(tx[w].todo)[2])
       IN  /\ tx' = [tx EXCEPT ![w].s = s2, ![w].todo = Tail(@)]
           /\ db' = [db EXCEPT !.productos =
                        {IF p.id = Head(tx[w].todo)[1]
                         THEN [p EXCEPT !.stock = Row(s2.by_id, p.id).stock]
                         ELSE p : p \in @}]
    /\ UNCHANGED <<req, resp, sesion>>

\* Lines 331-342: one pass of the loop.
fn_loop(w) ==
    /\ tx[w].pc = "loop"
    /\ tx[w].todo # << >>
    /\ tx' = [tx EXCEPT ![w].s = AddDetalle(@, Head(tx[w].todo)[1], Head(tx[w].todo)[2]),
                        ![w].todo = Tail(@)]
    /\ UNCHANGED <<db, req, resp, sesion>>

\* Lines 344-347
fn_commit(w) ==
    /\ tx[w].pc = "loop"
    /\ tx[w].todo = << >>
    /\ LET s2 == [tx[w].s EXCEPT !.factura = recalcular_total(@, tx[w].s.detalles)]
           pending == Flush(db, s2)
       IN  /\ db' = Commit(db, pending)
           /\ tx' = [tx EXCEPT ![w] =
                        [pc |-> "done", agg |-> tx[w].agg, s |-> s2,
                         outcome |-> IF Integrity(pending) THEN "created"
                                     ELSE "integrity_error",
                         factura_id |-> NextId(db.facturas)]]
    /\ UNCHANGED <<req, resp, sesion>>

\* The response leaves.
fn_return(w) ==
    /\ tx[w].pc = "done"
    /\ tx' = [tx EXCEPT ![w] = Idle]
    /\ UNCHANGED <<db, req, resp, sesion>>

\* The seeded database after the administrator added a second product.
InitConc ==
    /\ db = [clientes |-> {[id |-> 1, nombre |-> "Cliente demo"]},
             productos |-> {[id |-> 1, precio |-> SeedPrecio, stock |-> SeedStock],
                            [id |-> 2, precio |-> 250, stock |-> 6]},
             facturas |-> {},
             detalle_factura |-> {}]
    /\ req = NoReq
    /\ resp = NoResp
    /\ tx = [w \in Workers |-> Idle]
    /\ sesion = [b \in Browsers |-> Anon]

NextConc ==
    \E w \in Workers :
        \/ fn_begin(w)
        \/ fn_loop(w)
        \/ fn_commit(w)
        \/ fn_return(w)

SpecConc == InitConc /\ [][NextConc]_vars

----------------------------------------------------------------------------
(* Login, sessions and roles *)

\* The users create_app seeds; password stands for the hash of that password
\* (check_password_hash accepts exactly the password the hash was made of).
Usuarios ==
    {[id |-> 1, email |-> "administrador@facturas.com", password |-> "admin",
      role |-> "admin"],
     [id |-> 2, email |-> "usuario@facturas.com", password |-> "user",
      role |-> "user"]}

EmailInputs == {"administrador@facturas.com", " Usuario@Facturas.com ", "nadie@facturas.com"}
PasswordInputs == {"admin", "user"}

\* email.strip().lower(), on the addresses above
Normalizar(email) ==
    IF email = " Usuario@Facturas.com " THEN "usuario@facturas.com" ELSE email

\* The routes decorated with @login_required, and @roles_required('admin').
LoginRequiredOps ==
    {"index", "logout",
     "clientes_list", "clientes_nuevo", "clientes_editar", "clientes_eliminar",
     "facturas_nueva", "facturas_detalle",
     "productos_list", "productos_nuevo", "productos_editar", "productos_eliminar",
     "facturas_list", "reportes_ventas", "reportes_facturas_por_cliente",
     "debug_conteos"}

AdminOps ==
    {"clientes_list", "clientes_nuevo", "clientes_editar", "clientes_eliminar",
     "productos_list", "productos_nuevo", "productos_editar", "productos_eliminar",
     "reportes_ventas", "reportes_facturas_por_cliente", "debug_conteos"}

\* The routes that only read.
ReadOps ==
    {"index", "clientes_list", "productos_list", "facturas_list",
     "reportes_ventas", "reportes_facturas_por_cliente", "debug_conteos"}

\* current_user.is_authenticated, current_user.role
IsAuthenticated(b) == sesion[b] # Anon

Role(b) == Row(Usuarios, sesion[b]).role

\* Variant: the routes carry @login_required only.
Decorators_sin_roles(r) ==
    IF r.op \in LoginRequiredOps /\ ~IsAuthenticated(r.b)
    THEN "login_redirect"
    ELSE "pass"

\* What the decorators of r's route make of the request: @login_required
\* (outermost) sends an anonymous browser to the login page, roles_required
\* aborts with 403 unless the user's role is one of the roles.
Decorators(r) ==
    IF r.op \in LoginRequiredOps /\ ~IsAuthenticated(r.b)
    THEN "login_redirect"
    ELSE IF r.op \in AdminOps /\ ~(IsAuthenticated(r.b) /\ Role(r.b) \in {"admin"})
    THEN "forbidden"
    ELSE "pass"

Pass == req.op # "none" /\ Decorators(req) = "pass"

OtherReqs ==
    {[op |-> o] : o \in ReadOps \cup {"logout"}}
        \cup {[op |-> "facturas_detalle", factura_id |-> i] : i \in 1..MaxFact}
        \cup {[op |-> "login", email |-> e, password |-> w] :
                e \in EmailInputs, w \in PasswordInputs}

\* The invoice forms with one row filled at most.
FacturaReqsBreves == {r \in FacturaReqs : r.rows[2] = BlankRow}

AuthRequests == ClienteReqs \cup ProductoReqs \cup FacturaReqsBreves \cup OtherReqs

\* A request arrives from browser b.
SubmitFrom ==
    /\ req = NoReq
    /\ \E b \in Browsers : \E r \in AuthRequests :
          Room(db, r) /\ req' = [x \in {"b"} |-> b] @@ r
    /\ UNCHANGED <<db, resp, tx, sesion>>

\* LoginManager.unauthorized: redirect to the login view.
unauthorized ==
    /\ req.op # "none" /\ resp = NoResp
    /\ Decorators(req) = "login_redirect"
    /\ UNCHANGED db
    /\ Reply("login_redirect")

\* abort(403)
forbidden ==
    /\ req.op # "none" /\ resp = NoResp
    /\ Decorators(req) = "forbidden"
    /\ UNCHANGED db
    /\ Reply("forbidden")

\* POST /login
login ==
    /\ Handling("login")
    /\ LET email == Normalizar(req.email)
           found == {u \in Usuarios : u.email = email}
       IN  IF found # {} /\ (CHOOSE u \in found : TRUE).password = req.password
           THEN /\ sesion' = [sesion EXCEPT ![req.b] = (CHOOSE u \in found : TRUE).id]
                /\ resp' = [outcome |-> "logged_in"]
           ELSE /\ UNCHANGED sesion
                /\ resp' = [outcome |-> "invalid_credentials"]
    /\ UNCHANGED <<db, req, tx>>

logout ==
    /\ Handling("logout")
    /\ sesion' = [sesion EXCEPT ![req.b] = Anon]
    /\ resp' = [outcome |-> "logged_out"]
    /\ UNCHANGED <<db, req, tx>>

\* index, the listings, the reports and debug_conteos query and render.
read_only ==
    /\ req.op \in ReadOps /\ resp = NoResp
    /\ UNCHANGED db
    /\ Reply("ok")

facturas_detalle ==
    /\ Handling("facturas_detalle")
    /\ UNCHANGED db
    /\ Reply(IF req.factura_id \in Ids(db.facturas) THEN "ok" ELSE "not_found")

NextAuth ==
    \/ SubmitFrom
    \/ unauthorized
    \/ forbidden
    \/ login
    \/ Pass /\ logout
    \/ Pass /\ read_only
    \/ Pass /\ facturas_detalle
    \/ Pass /\ clientes_nuevo
    \/ Pass /\ clientes_editar
    \/ Pass /\ clientes_eliminar
    \/ Pass /\ productos_nuevo
    \/ Pass /\ productos_editar
    \/ Pass /\ productos_eliminar
    \/ Pass /\ facturas_nueva
    \/ Deliver

SpecAuth == Init /\ [][NextAuth]_vars

----------------------------------------------------------------------------
(* Properties *)

Lineas(d, factura_id) == {l \in d.detalle_factura : l.factura_id = factura_id}

RECURSIVE SubtotalSum(_)
SubtotalSum(ls) ==
    IF ls = {} THEN 0
    ELSE LET l == CHOOSE x \in ls : TRUE
         IN  l.subtotal + SubtotalSum(ls \ {l})

\* The handler of op takes its step: a request in flight gets its response.
Handled(op) == req.op = op /\ resp = NoResp /\ resp' # NoResp

IntOf(v) == IF v = None THEN 0 ELSE v[1]

\* The quantity a form asks of product pid, over all the rows that name it.
RECURSIVE RequestedFrom(_, _, _)
RequestedFrom(rows, pid, i) ==
    IF i > ROWS THEN 0
    ELSE (IF rows[i].pid = Some(pid) THEN IntOf(rows[i].qty) ELSE 0)
            + RequestedFrom(rows, pid, i + 1)

Requested(rows, pid) == RequestedFrom(rows, pid, 1)

\* The product ids of the rows that carry a product and a quantity.
ItemPids(rows) ==
    {rows[i].pid[1] : i \in {j \in 1..ROWS : Truthy(rows[j].pid) /\ Truthy(rows[j].qty)}}

SameSales(d1, d2) ==
    /\ d1.productos = d2.productos
    /\ d1.facturas = d2.facturas
    /\ d1.detalle_factura = d2.detalle_factura

\* C1: in every reachable state, every stored invoice's total is the sum of
\* the subtotals of the lines of that invoice.
TotalIsSumOfSubtotals ==
    \A f \in db.facturas : f.total = SubtotalSum(Lineas(db, f.id))

\* An invoice of two lines, one of them on a product whose price was edited
\* after the sale.
TotalIsSumOfSubtotals_Witness ==
    \E f \in db.facturas :
        /\ Cardinality(Lineas(db, f.id)) = 2
        /\ f.total > 0
        /\ \E l \in Lineas(db, f.id) : \E p \in db.productos :
              p.id = l.producto_id /\ p.precio # l.precio_unitario

\* C2: in every reachable state, every stored product has stock >= 0.
StockNeverNegative == \A p \in db.productos : p.stock >= 0

\* A product sold out by an invoice.
StockNeverNegative_Witness ==
    \E p \in db.productos :
        /\ p.stock = 0
        /\ \E l \in db.detalle_factura : l.producto_id = p.id /\ l.cantidad = SeedStock

\* C3: a submission that asks of some stored product more (summed over the
\* rows naming it) than its stock is not accepted, and leaves the products,
\* the invoices and the lines as they were.
OverStockRejected ==
    [][(Handled("facturas_nueva")
          /\ \E p \in db.productos : Requested(req.rows, p.id) > p.stock)
        => (resp'.outcome # "created" /\ SameSales(db', db))]_vars

\* Stock 10, rows of 5 and 6 of the same product: rejected, stock still 10.
OverStockRejected_Witness ==
    /\ req.op = "facturas_nueva"
    /\ resp.outcome = "insuf"
    /\ req.rows[1] = [pid |-> Some(1), qty |-> Some(5)]
    /\ req.rows[2] = [pid |-> Some(1), qty |-> Some(6)]
    /\ \E p \in db.productos : p.id = 1 /\ p.stock = 10
    /\ db.facturas = {}

NoDuplicateLines ==
    \A l1, l2 \in db.detalle_factura :
        (l1.factura_id = l2.factura_id /\ l1.producto_id = l2.producto_id) => l1 = l2

\* C4: an accepted submission creates an invoice with exactly one line per
\* product id among its rows that carry a quantity, whose quantity is the sum
\* over all the rows naming the product; no stored invoice has two lines of
\* one product.
OneLinePerProduct ==
    /\ []NoDuplicateLines
    /\ [][(Handled("facturas_nueva") /\ resp'.outcome = "created")
            => LET new == Lineas(db', resp'.factura_id)
               IN  /\ Lineas(db, resp'.factura_id) = {}
                   /\ {l.producto_id : l \in new} = ItemPids(req.rows)
                   /\ Cardinality(new) = Cardinality(ItemPids(req.rows))
                   /\ \A l \in new : l.cantidad = Requested(req.rows, l.producto_id)]_vars

\* Rows of 3 and 5 of product 1 became one line of 8.
OneLinePerProduct_Witness ==
    /\ req.op = "facturas_nueva"
    /\ resp.outcome = "created"
    /\ req.rows[1] = [pid |-> Some(1), qty |-> Some(3)]
    /\ req.rows[2] = [pid |-> Some(1), qty |-> Some(5)]
    /\ \E l \in Lineas(db, resp.factura_id) : l.producto_id = 1 /\ l.cantidad = 8
    /\ Cardinality(Lineas(db, resp.factura_id)) = 1

\* C5: no invoice is created from a submission with a row that selects a
\* product and carries a quantity <= 0, the quantity 0 included.
NonPositiveQuantityRejected ==
    (req.op = "facturas_nueva" /\ resp.outcome = "created")
        => \A i \in 1..ROWS :
              ~(Truthy(req.rows[i].pid) /\ req.rows[i].qty # None
                    /\ req.rows[i].qty[1] <= 0)

ValidationOutcomes == {"no_cliente", "bad_qty", "no_items", "no_producto", "insuf"}

\* The failures of a submission, read off the form and the stored state: no
\* customer, a negative quantity, no item, an unknown product, a shortfall.
ValidationFailure(d, r) ==
    \/ ~Truthy(r.cliente_id)
    \/ \E i \in 1..ROWS : Truthy(r.rows[i].pid) /\ IntOf(r.rows[i].qty) < 0
    \/ ItemPids(r.rows) = {}
    \/ ItemPids(r.rows) \ Ids(d.productos) # {}
    \/ \E p \in d.productos : Requested(r.rows, p.id) > p.stock

\* C6: a submission that fails validation gets a validation warning, and a
\* submission that gets one leaves the whole stored state as it was.
ValidationFailureChangesNothing ==
    [][Handled("facturas_nueva")
        => /\ ValidationFailure(db, req) => resp'.outcome \in ValidationOutcomes
           /\ resp'.outcome \in ValidationOutcomes => db' = db]_vars

\* A shortfall on the second product of a form, after an earlier sale.
ValidationFailureChangesNothing_Witness ==
    /\ req.op = "facturas_nueva"
    /\ resp.outcome = "insuf"
    /\ db.facturas # {}
    /\ \E p, q \in db.productos :
          /\ req.rows[1].pid = Some(p.id) /\ Requested(req.rows, p.id) <= p.stock
          /\ req.rows[2].pid = Some(q.id) /\ Requested(req.rows, q.id) > q.stock
          /\ Requested(req.rows, p.id) > 0

\* C7: a successful creation takes from each stored product exactly the
\* quantity the form asks of it (nothing from a product not on the invoice),
\* and each new line carries the product's price of that moment as unit
\* price and quantity x unit price as subtotal.
CreationDecrementsStock ==
    [][(Handled("facturas_nueva") /\ resp'.outcome = "created")
        => /\ Ids(db'.productos) = Ids(db.productos)
           /\ \A p \in db.productos :
                 LET after == Row(db'.productos, p.id)
                 IN  /\ after.stock = p.stock - Requested(req.rows, p.id)
                     /\ after.precio = p.precio
                     /\ p.id \notin ItemPids(req.rows) => after = p
           /\ \A l \in Lineas(db', resp'.factura_id) :
                 /\ l.precio_unitario = Row(db.productos, l.producto_id).precio
                 /\ l.subtotal = l.cantidad * l.precio_unitario]_vars

\* Price 100.00, quantity 3: subtotal 300.00, total 300.00, stock 10 - 3.
CreationDecrementsStock_Witness ==
    /\ req.op = "facturas_nueva"
    /\ resp.outcome = "created"
    /\ ItemPids(req.rows) = {1}
    /\ Requested(req.rows, 1) = 3
    /\ \E l \in Lineas(db, resp.factura_id) :
          l.precio_unitario = 10000 /\ l.subtotal = 30000
    /\ \E f \in db.facturas : f.id = resp.factura_id /\ f.total = 30000
    /\ \E p \in db.productos : p.id = 1 /\ p.stock = SeedStock - 3

\* C9: deleting a customer with an invoice is refused with a warning and
\* changes nothing, deleting a customer with none removes it, and every
\* stored invoice references a stored customer.
CustomerDeletionGuarded ==
    /\ []FkFacturaCliente(db)
    /\ [][(Handled("clientes_eliminar") /\ req.cliente_id \in Ids(db.clientes))
            => IF FacturasDe(db, req.cliente_id) # {}
               THEN resp'.outcome = "in_use" /\ db' = db
               ELSE /\ resp'.outcome = "deleted"
                    /\ req.cliente_id \notin Ids(db'.clientes)
                    /\ SameSales(db', db)]_vars

CustomerDeletionGuarded_Witness ==
    /\ req.op = "clientes_eliminar"
    /\ resp.outcome = "in_use"
    /\ req.cliente_id \in Ids(db.clientes)
    /\ FacturasDe(db, req.cliente_id) # {}

\* C10: deleting a product that an invoice line references is refused with a
\* warning and changes nothing, deleting a product with no line removes it,
\* and every stored line references a stored product.
ProductDeletionGuarded ==
    /\ [](\A l \in db.detalle_factura : l.producto_id \in Ids(db.productos))
    /\ [][(Handled("productos_eliminar") /\ req.producto_id \in Ids(db.productos))
            => IF DetallesDe(db, req.producto_id) # {}
               THEN resp'.outcome = "in_use" /\ db' = db
               ELSE /\ resp'.outcome = "deleted"
                    /\ req.producto_id \notin Ids(db'.productos)
                    /\ db'.detalle_factura = db.detalle_factura]_vars

ProductDeletionGuarded_Witness ==
    /\ req.op = "productos_eliminar"
    /\ resp.outcome = "in_use"
    /\ req.producto_id \in Ids(db.productos)
    /\ DetallesDe(db, req.producto_id) # {}

\* The step of worker w stored the whole of its invoice: the invoice, one
\* line for each product of agg, and the session's stock of each of them.
WholeInvoiceApplied(w) ==
    LET agg == tx[w].agg
        fid == tx'[w].factura_id
        new == Lineas(db', fid)
    IN  /\ tx[w].pc = "loop" /\ tx'[w].pc = "done"
        /\ fid \notin Ids(db.facturas)
        /\ Ids(db'.facturas) = Ids(db.facturas) \cup {fid}
        /\ db.facturas \subseteq db'.facturas
        /\ db'.detalle_factura = db.detalle_factura \cup new
        /\ {l.producto_id : l \in new} = Keys(agg)
        /\ \A l \in new : l.cantidad = Get(agg, l.producto_id)
        /\ Ids(db'.productos) = Ids(db.productos)
        /\ \A p \in db'.productos :
              IF p.id \in Keys(agg)
              THEN p.stock = Row(tx[w].s.by_id, p.id).stock
              ELSE p \in db.productos

\* C8: with requests served at the same time, every step leaves the stored
\* state as it was or stores one whole invoice (the invoice, all its lines
\* and all its stock decrements); every stored invoice has its lines.
NoPartialApplication ==
    /\ [](\A f \in db.facturas :
            Lineas(db, f.id) # {} /\ f.total = SubtotalSum(Lineas(db, f.id)))
    /\ [][\A w \in Workers :
            tx'[w] # tx[w] => (db' = db \/ WholeInvoiceApplied(w))]_vars

\* One request has committed an invoice of two lines while another is in the
\* middle of its loop: its first line and decrement exist in its session only.
NoPartialApplication_Witness ==
    \E v, w \in Workers :
        /\ tx[v].pc = "done" /\ tx[v].outcome = "created"
        /\ Cardinality(Lineas(db, tx[v].factura_id)) = 2
        /\ tx[w].pc = "loop" /\ Len(tx[w].s.detalles) = 1 /\ Len(tx[w].todo) = 1
        /\ Cardinality(db.facturas) = 1
        /\ \E p \in db.productos :
              /\ p.id = tx[w].s.detalles[1].producto_id
              /\ p.stock # Row(tx[w].s.by_id, p.id).stock

\* The units of product pid on the stored invoice lines.
RECURSIVE CantidadSum(_)
CantidadSum(ls) ==
    IF ls = {} THEN 0
    ELSE LET l == CHOOSE x \in ls : TRUE
         IN  l.cantidad + CantidadSum(ls \ {l})

Vendido(d, pid) == CantidadSum(DetallesDe(d, pid))

\* C12: with invoice creations served at the same time and no product edit,
\* every product's stock is its initial stock less the units on the stored
\* lines of that product, so that no more units are sold than were in stock.
StockConserved ==
    /\ \E p \in db.productos : p.id = 1 /\ p.stock = SeedStock - Vendido(db, 1)
    /\ \E p \in db.productos : p.id = 2 /\ p.stock = 6 - Vendido(db, 2)

\* C13: a submission whose customer id names no stored customer stores no
\* invoice, no line and no stock decrement, and every stored invoice
\* references a stored customer.
UnknownCustomerStoresNothing ==
    /\ []FkFacturaCliente(db)
    /\ [][(Handled("facturas_nueva") /\ Truthy(req.cliente_id)
              /\ req.cliente_id[1] \notin Ids(db.clientes))
            => (resp'.outcome # "created" /\ db' = db)]_vars

\* The customer was deleted; a submission that names it and passes every
\* check of the handler ends in an IntegrityError with nothing stored.
UnknownCustomerStoresNothing_Witness ==
    /\ req.op = "facturas_nueva"
    /\ resp.outcome = "integrity_error"
    /\ req.cliente_id = Some(1)
    /\ db.clientes = {}
    /\ Validar(db, req) = "ok"
    /\ db.facturas = {} /\ db.detalle_factura = {}
    /\ \E p \in db.productos : p.id = 1 /\ p.stock = SeedStock


\* A step in which the pending request of a browser is answered.
Answered == req.op # "none" /\ resp = NoResp /\ resp' # NoResp

Rejected(outcome) == resp'.outcome = outcome /\ db' = db /\ sesion' = sesion

\* The admin-only routes: customer and product CRUD, the reports, debug counts.
ClaimedAdminOps ==
    {"clientes_list", "clientes_nuevo", "clientes_editar", "clientes_eliminar",
     "productos_list", "productos_nuevo", "productos_editar", "productos_eliminar",
     "reportes_ventas", "reportes_facturas_por_cliente", "debug_conteos"}

\* An anonymous request to a route of ops is sent to the login page and
\* changes nothing.
AnonymousRedirected(ops) ==
    (Answered /\ req.op \in ops /\ sesion[req.b] = Anon)
        => Rejected("login_redirect")

\* An admin-only route asked for by a logged-in user who is not admin is
\* rejected with forbidden and changes nothing.
NonAdminForbidden ==
    (Answered /\ req.op \in ClaimedAdminOps /\ sesion[req.b] # Anon
        /\ Row(Usuarios, sesion[req.b]).role # "admin")
        => Rejected("forbidden")

\* A browser becomes authenticated only by its own login with the email and
\* password of a stored user, as that user; it stops being so only by its logout.
SessionChangesByLoginAndLogout ==
    \A b \in Browsers :
        sesion'[b] # sesion[b] =>
            /\ Answered /\ req.b = b
            /\ IF sesion'[b] # Anon
               THEN /\ req.op = "login"
                    /\ \E u \in Usuarios :
                          /\ u.id = sesion'[b]
                          /\ u.email = Normalizar(req.email)
                          /\ u.password = req.password
               ELSE req.op = "logout"

\* The stored data changes only for an authenticated browser.
ChangesOnlyWhenAuthenticated ==
    db' # db => (Answered /\ sesion[req.b] # Anon)

AllOps == LoginRequiredOps \cup {"login"}

\* C11: every route other than the login page itself requires an authenticated
\* principal (an anonymous request is redirected to the login page and changes
\* nothing); the admin-only routes are never executed for a principal whose
\* role is not admin (forbidden, no state change); a principal is
\* authenticated only after a login whose email, stripped and lower-cased, and
\* password match a stored user, and no longer after logout.
RoutesAreGated ==
    /\ [][AnonymousRedirected(AllOps \ {"login"})]_vars
    /\ [][NonAdminForbidden]_vars
    /\ [][SessionChangesByLoginAndLogout]_vars
    /\ [][ChangesOnlyWhenAuthenticated]_vars

\* A logged-in user of role user asked to delete a customer that has no
\* invoices, and was answered forbidden.
RoutesAreGated_Witness ==
    /\ req.op = "clientes_eliminar" /\ resp # NoResp
    /\ resp.outcome = "forbidden"
    /\ sesion[req.b] = 2
    /\ req.cliente_id \in Ids(db.clientes) /\ ~ClienteEnUso(db, req.cliente_id)

\* C11 as stated: every route, the login page included, requires an
\* authenticated principal.
EveryRouteRequiresAuth ==
    /\ [][AnonymousRedirected(AllOps)]_vars
    /\ [][NonAdminForbidden]_vars
    /\ [][SessionChangesByLoginAndLogout]_vars
    /\ [][ChangesOnlyWhenAuthenticated]_vars

====
